---- MODULE Spec2Model ----
(***************************************************************************)
(* Model of src/shopify_contact_scraper.py (class ShopifyContactScraper). *)
(*                                                                         *)
(* Its entry points are modelled, each as a sequential state machine:       *)
(*   - scrape_multiple_sites / scrape_site, and the saving of their        *)
(*     results by main                      (SpecCrawl)                     *)
(*   - search_google                        (SpecSearch, SpecSearchFair)    *)
(*   - extract_emails                       (SpecEmails)                    *)
(*   - extract_phone_numbers                (SpecPhones)                    *)
(*                                                                         *)
(* The rendering collaborator (Selenium) and the parsed document are the   *)
(* environment: what a page holds, and whether a call of the collaborator  *)
(* returns or raises, is chosen with \E in the action that makes the call. *)
(***************************************************************************)
EXTENDS Integers, Sequences, FiniteSets, TLC

VARIABLES
    mode,           \* which entry point this run exercises: "crawl", "search",
                    \* "emails" or "phones"
    driver,         \* self.driver: TRUE = a WebDriver object, FALSE = None
    \* ---- scrape_multiple_sites / scrape_site
    site_urls,      \* scrape_multiple_sites: parameter urls
    i,              \* scrape_multiple_sites: loop position, 1-based
    results,        \* scrape_multiple_sites: results
    cpc,            \* control position of the crawl
    url,            \* scrape_site: parameter url
    result,         \* scrape_site: result
    current_url,    \* scrape_site: current_url
    emails,         \* scrape_site: emails
    phones,         \* scrape_site: phones
    social,         \* scrape_site: social
    address,        \* scrape_site: address
    contact_page,   \* scrape_site: contact_page
    visit,          \* history of the scrape_site call in progress (or last finished)
    served,         \* history: for each record of results, the URL it was made for
                    \*          and whether its visit ended in the outer except clauses
    written,        \* main: the rows handed to the output file, <<>> = no file
    \* ---- search_google
    max_results,    \* search_google: parameter max_results
    max_pages,      \* search_google: max_pages
    urls,           \* search_google: urls
    seen,           \* search_google: seen
    page,           \* search_google: page
    next_button_found, \* search_google: next_button_found
    spc,            \* control position of the search
    session,        \* history of the search_google call
    \* ---- extract_emails / extract_phone_numbers
    soup,           \* the parsed document handed to the extractor
    text,           \* the document's linear text handed to the extractor
    extracted,      \* the set the extractor returned
    xpc             \* control position of the extraction

crawlVars == <<site_urls, i, results, cpc, url, result, current_url, emails,
               phones, social, address, contact_page, visit, served, written>>

searchVars == <<max_results, max_pages, urls, seen, page, next_button_found,
                spc, session>>

extractVars == <<soup, text, extracted, xpc>>

vars == <<mode, driver, crawlVars, searchVars, extractVars>>

-----------------------------------------------------------------------------
(* Bounds *)

\* longest input list given to scrape_multiple_sites
MaxUrls == 2

-----------------------------------------------------------------------------
(* URLs.  A URL is <<site, path>>; the empty string '' is NoUrl.  An href   *)
(* is a URL, or a relative reference <<"", path>>.                          *)

NoUrl == <<"", "">>

\* urllib.parse.urljoin(base, href) for absolute and root-relative hrefs
UrlJoin(base, href) ==
    IF href[1] = "" THEN <<base[1], href[2]>> ELSE href

\* the URLs a caller hands to scrape_multiple_sites
TargetUrls == {<<"a", "/">>, <<"b", "/">>}

\* driver.current_url after driver.get(u): site "b" redirects to its contact page
FinalUrl(u) == IF u[1] = "b" THEN <<"b", "/contact">> ELSE u

Platforms == {"facebook", "instagram", "twitter_x", "tiktok", "youtube", "linkedin"}

\* ', '.join(sorted(S)): addresses and numbers are numbered in alphabetical order
RECURSIVE JoinSorted(_)
JoinSorted(S) ==
    IF S = {} THEN <<>>
    ELSE LET m == CHOOSE x \in S : \A y \in S : x <= y
         IN  <<m>> \o JoinSorted(S \ {m})

-----------------------------------------------------------------------------
(* Rendered pages, as the five extractors see them.                        *)

NoSocialHrefs == [p \in Platforms |-> NoUrl]

MainSocialHrefs ==
    [p \in Platforms |-> IF p = "facebook" THEN <<"facebook.com", "/main">>
                         ELSE IF p = "youtube" THEN <<"youtube.com", "/main">>
                         ELSE NoUrl]

ContactSocialHrefs ==
    [p \in Platforms |-> IF p = "facebook" THEN <<"facebook.com", "/contact">>
                         ELSE IF p = "instagram" THEN <<"instagram.com", "/contact">>
                         ELSE NoUrl]

\* What a main page can hold: every combination of e-mail addresses found or
\* not, phone numbers found or not, and a contact link present or not.  A page that shows an e-mail address also shows a postal address,
\* and one that shows a phone number also links its social accounts.
MainPages ==
    {[emails  |-> e,
      phones  |-> p,
      social  |-> IF p = {} THEN NoSocialHrefs ELSE MainSocialHrefs,
      address |-> IF e = {} THEN "" ELSE "main street",
      contact |-> h] :
        e \in {{}, {1}}, p \in {{}, {1}},
        h \in {NoUrl, <<"", "/contact">>}}

\* What a contact page can hold, built the same way.
ContactPages ==
    {[emails  |-> e,
      phones  |-> p,
      social  |-> IF p = {} THEN NoSocialHrefs ELSE ContactSocialHrefs,
      address |-> IF e = {} THEN "" ELSE "contact road",
      contact |-> NoUrl] :
        e \in {{}, {1, 2}}, p \in {{}, {2}}}

\* extract_social_links(soup, base_url)
extract_social_links(pg, base_url) ==
    [p \in Platforms |->
        IF pg.social[p] = NoUrl THEN NoUrl ELSE UrlJoin(base_url, pg.social[p])]

\* find_contact_page(soup, base_url)
find_contact_page(pg, base_url) ==
    IF pg.contact = NoUrl THEN NoUrl ELSE UrlJoin(base_url, pg.contact)

-----------------------------------------------------------------------------
(* scrape_site                                                              *)

\* the result dictionary scrape_site starts from
InitialResult(u) ==
    [url |-> u, emails |-> <<>>, phone_numbers |-> <<>>,
     facebook |-> NoUrl, instagram |-> NoUrl, twitter_x |-> NoUrl,
     tiktok |-> NoUrl, youtube |-> NoUrl, linkedin |-> NoUrl,
     physical_address |-> "", contact_page_url |-> NoUrl]

\* one extraction pass as the history keeps it
NoPass ==
    [ran |-> FALSE, emails |-> {}, phones |-> {}, social |-> NoSocialHrefs,
     address |-> "", contact_page |-> NoUrl]

NoVisit ==
    [target |-> NoUrl, loads |-> <<>>, failed |-> FALSE,
     mwait |-> "none", cwait |-> "none", mfault |-> "none", cfault |-> "none",
     main |-> NoPass, contact |-> NoPass]

\* line 551 without its test of what the main page yielded
NeedsContactVisit_IgnoresFindings(cp, cur, em, ph) ==
    /\ cp # NoUrl
    /\ cp # cur

\* line 551: is the contact page visited?
NeedsContactVisit(cp, cur, em, ph) ==
    /\ cp # NoUrl
    /\ cp # cur
    /\ (Cardinality(em) = 0 \/ Cardinality(ph) = 0)

\* lines 570-573 with the test of line 572 reduced to "if value"
MergeSocial_ContactWins(main_social, contact_social) ==
    [p \in Platforms |->
        IF contact_social[p] # NoUrl THEN contact_social[p] ELSE main_social[p]]

\* lines 570-573: contact-page links fill the platforms the main page left empty
MergeSocial(main_social, contact_social) ==
    [p \in Platforms |->
        IF contact_social[p] # NoUrl /\ main_social[p] = NoUrl
        THEN contact_social[p] ELSE main_social[p]]

\* lines 576-577: the contact page's address is used when the main page had none
MergeAddress(main_address, contact_address) ==
    IF main_address = "" THEN contact_address ELSE main_address

\* lines 583-588 without line 583: the record keeps the requested URL
UpdatedResult_KeepsRequested(res, cur, em, ph, addr, cp, soc) ==
    [res EXCEPT !.emails = JoinSorted(em),
                !.phone_numbers = JoinSorted(ph),
                !.physical_address = addr,
                !.contact_page_url = cp,
                !.facebook = soc.facebook,
                !.instagram = soc.instagram,
                !.twitter_x = soc.twitter_x,
                !.tiktok = soc.tiktok,
                !.youtube = soc.youtube,
                !.linkedin = soc.linkedin]

\* lines 583-588: the record built from the locals
UpdatedResult(res, cur, em, ph, addr, cp, soc) ==
    [res EXCEPT !.url = cur,
                !.emails = JoinSorted(em),
                !.phone_numbers = JoinSorted(ph),
                !.physical_address = addr,
                !.contact_page_url = cp,
                !.facebook = soc["facebook"],
                !.instagram = soc["instagram"],
                !.twitter_x = soc["twitter_x"],
                !.tiktok = soc["tiktok"],
                !.youtube = soc["youtube"],
                !.linkedin = soc["linkedin"]]

\* the extractors of lines 544-548, in call order
MainExtractors == <<"extract_emails", "extract_phone_numbers", "extract_social_links",
                    "extract_physical_address", "find_contact_page">>

\* Ran(f, e): extractor e returned before the pass raised in f ("none": no raise)
Ran(f, e) ==
    \/ f = "none"
    \/ \E j, k \in 1..Len(MainExtractors) :
          MainExtractors[j] = e /\ MainExtractors[k] = f /\ j < k

\* the values the extractors returned on page pg before the pass raised in f
PassOn(pg, base_url, f) ==
    [ran          |-> TRUE,
     emails       |-> IF Ran(f, "extract_emails") THEN pg.emails ELSE {},
     phones       |-> IF Ran(f, "extract_phone_numbers") THEN pg.phones ELSE {},
     social       |-> IF Ran(f, "extract_social_links")
                      THEN extract_social_links(pg, base_url) ELSE NoSocialHrefs,
     address      |-> IF Ran(f, "extract_physical_address") THEN pg.address ELSE "",
     contact_page |-> IF Ran(f, "find_contact_page")
                      THEN find_contact_page(pg, base_url) ELSE NoUrl]

ResetLocals ==
    /\ current_url' = NoUrl
    /\ emails' = {}
    /\ phones' = {}
    /\ social' = NoSocialHrefs
    /\ address' = ""
    /\ contact_page' = NoUrl

\* scrape_multiple_sites lines 614-616 calling scrape_site, lines 498-516
ScrapeSiteCall ==
    /\ mode = "crawl" /\ cpc = "loop" /\ i <= Len(site_urls)
    /\ url' = site_urls[i]
    /\ result' = InitialResult(site_urls[i])
    /\ ResetLocals
    /\ IF driver
       THEN /\ cpc' = "main"
            /\ visit' = [NoVisit EXCEPT !.target = site_urls[i]]
       ELSE /\ cpc' = "return"
            /\ visit' = [NoVisit EXCEPT !.target = site_urls[i],
                                        !.failed = TRUE, !.mfault = "no_driver"]
    /\ UNCHANGED <<mode, driver, site_urls, i, results, served>>

\* scrape_site lines 518-551; then, when no contact page is to be visited, the
\* update of lines 582-590; when something raises, the handlers of lines 592-597
MainPageVisit ==
    /\ cpc = "main"
    /\ \/ \* driver.get(url) raises
          /\ visit' = [visit EXCEPT !.loads = Append(@, url), !.failed = TRUE,
                                    !.mfault = "get"]
          /\ cpc' = "return"
          /\ UNCHANGED <<result, current_url, emails, phones, social, address,
                         contact_page>>
       \/ \* the wait of lines 523-528 returns or times out; page_source raises
          \E w \in {"ok", "timeout"} :
             /\ visit' = [visit EXCEPT !.loads = Append(@, url), !.failed = TRUE,
                                       !.mwait = w, !.mfault = "page_source"]
             /\ cpc' = "return"
             /\ UNCHANGED <<result, current_url, emails, phones, social, address,
                            contact_page>>
       \/ \* the page is read; an extractor of lines 544-548 raises
          \E w \in {"ok", "timeout"}, pg \in MainPages,
             f \in {MainExtractors[k] : k \in 1..Len(MainExtractors)} :
             /\ visit' = [visit EXCEPT !.loads = Append(@, url), !.failed = TRUE,
                                       !.mwait = w, !.mfault = f,
                                       !.main = PassOn(pg, FinalUrl(url), f)]
             /\ cpc' = "return"
             /\ UNCHANGED <<result, current_url, emails, phones, social, address,
                            contact_page>>
       \/ \* the page is read and every extractor returns
          \E w \in {"ok", "timeout"}, pg \in MainPages :
             LET cur == FinalUrl(url)
                 ps  == PassOn(pg, cur, "none")
             IN  /\ current_url' = cur
                 /\ emails' = ps.emails
                 /\ phones' = ps.phones
                 /\ social' = ps.social
                 /\ address' = ps.address
                 /\ contact_page' = ps.contact_page
                 /\ visit' = [visit EXCEPT !.loads = Append(@, url), !.mwait = w,
                                           !.main = ps]
                 /\ IF NeedsContactVisit(ps.contact_page, cur, ps.emails, ps.phones)
                    THEN /\ cpc' = "contact"
                         /\ UNCHANGED result
                    ELSE /\ cpc' = "return"
                         /\ result' = UpdatedResult(result, cur, ps.emails, ps.phones,
                                                    ps.address, ps.contact_page,
                                                    ps.social)
    /\ UNCHANGED <<mode, driver, site_urls, i, results, url, served>>

\* line 579 catching nothing: the exception reaches the handlers of lines 592-597
InnerExceptCatches_Nothing(f) == FALSE

\* line 579: "except Exception" catches whatever lines 554-577 raise at f
InnerExceptCatches(f) == TRUE

\* scrape_site lines 552-580: the contact-page visit, with its own handler
\* (lines 579-580), followed by the update of lines 582-590
ContactPageVisit ==
    /\ cpc = "contact"
    /\ \E f \in {"get", "wait", "page_source", "none", "extract_emails",
                 "extract_phone_numbers", "extract_social_links",
                 "extract_physical_address"} :
       \E pg \in IF f \in {"get", "wait", "page_source", "extract_emails"}
                 THEN {CHOOSE q \in ContactPages : TRUE} ELSE ContactPages :
          LET \* what was extracted and merged before anything raised
              ps == IF f \in {"get", "wait", "page_source"}
                    THEN NoPass ELSE PassOn(pg, contact_page, f)
              em == emails \cup ps.emails
              ph == phones \cup ps.phones
              so == MergeSocial(social, ps.social)
              ad == MergeAddress(address, ps.address)
              escapes == f # "none" /\ ~InnerExceptCatches(f)
          IN  \* extract_physical_address is called only when address is empty
              /\ (f = "extract_physical_address") => (address = "")
              /\ emails' = em
              /\ phones' = ph
              /\ social' = so
              /\ address' = ad
              /\ visit' = [visit EXCEPT
                              !.loads = Append(@, contact_page),
                              \* line 555: a timeout raises TimeoutException
                              !.cwait = IF f = "get" THEN "none"
                                        ELSE IF f = "wait" THEN "timeout" ELSE "ok",
                              !.cfault = f,
                              !.contact = ps,
                              !.failed = escapes]
              /\ result' = IF escapes THEN result
                           ELSE UpdatedResult(result, current_url, em, ph, ad,
                                              contact_page, so)
    /\ cpc' = "return"
    /\ UNCHANGED <<mode, driver, site_urls, i, results, url, current_url,
                   contact_page, served>>

\* lines 616-617 appending only the records of visits that did not fail
ScrapeSiteReturn_DropsFailed ==
    /\ cpc = "return"
    /\ results' = IF visit.failed THEN results ELSE Append(results, result)
    /\ served' = IF visit.failed THEN served
                 ELSE Append(served, [target |-> url, failed |-> visit.failed])
    /\ i' = i + 1
    /\ cpc' = "loop"
    /\ url' = NoUrl
    /\ result' = InitialResult(NoUrl)
    /\ visit' = NoVisit
    /\ ResetLocals
    /\ UNCHANGED <<mode, driver, site_urls>>

\* scrape_site line 599 returning into scrape_multiple_sites lines 616-621
ScrapeSiteReturn ==
    /\ cpc = "return"
    /\ results' = Append(results, result)
    /\ served' = Append(served, [target |-> url, failed |-> visit.failed])
    /\ i' = i + 1
    /\ cpc' = "loop"
    /\ url' = NoUrl
    /\ result' = InitialResult(NoUrl)
    /\ visit' = NoVisit
    /\ ResetLocals
    /\ UNCHANGED <<mode, driver, site_urls>>

\* scrape_multiple_sites line 623
ScrapeMultipleSitesReturn ==
    /\ mode = "crawl" /\ cpc = "loop" /\ i > Len(site_urls)
    /\ cpc' = "done"
    /\ UNCHANGED <<mode, driver, site_urls, i, results, url, result, current_url,
                   emails, phones, social, address, contact_page, visit, served>>

\* save_to_csv / save_to_excel lines 633-638, 649-654: the rows written, none
\* when data is empty
save_to_file(data) == IF data = <<>> THEN <<>> ELSE data

\* main lines 758-771: scrape_multiple_sites has returned; the results are
\* saved whatever self.driver is, and main returns
SaveResults ==
    /\ mode = "crawl" /\ cpc = "done"
    /\ written' = save_to_file(results)
    /\ cpc' = "exit"
    /\ UNCHANGED <<mode, driver, site_urls, i, results, url, result, current_url,
                   emails, phones, social, address, contact_page, visit, served>>

\* the input lists of scrape_multiple_sites
UrlLists == UNION {[1..n -> TargetUrls] : n \in 0..MaxUrls}

CrawlIdle ==
    /\ site_urls = <<>> /\ i = 1 /\ results = <<>> /\ cpc = "idle"
    /\ url = NoUrl /\ result = InitialResult(NoUrl)
    /\ current_url = NoUrl /\ emails = {} /\ phones = {}
    /\ social = NoSocialHrefs /\ address = "" /\ contact_page = NoUrl
    /\ visit = NoVisit /\ served = <<>> /\ written = <<>>

SearchIdle ==
    /\ max_results = 0 /\ max_pages = 0 /\ urls = <<>> /\ seen = {}
    /\ page = 1 /\ next_button_found = FALSE /\ spc = "idle"
    /\ session = [waits |-> <<>>, links |-> <<>>, added |-> <<>>, tried |-> <<>>,
                  clicks |-> <<>>, stop |-> ""]

\* a document with nothing in it, and its text
NoSoup == [links |-> <<>>, metas |-> <<>>, elements |-> <<>>]

NoText == [words |-> <<>>, phones |-> <<>>]

ExtractIdle ==
    /\ soup = NoSoup /\ text = NoText /\ extracted = {} /\ xpc = "idle"

\* a scraper object (lines 40-50: driver set or None) about to crawl a list
InitCrawl ==
    /\ mode = "crawl"
    /\ driver \in BOOLEAN
    /\ site_urls \in UrlLists
    /\ i = 1 /\ results = <<>> /\ cpc = "loop"
    /\ url = NoUrl /\ result = InitialResult(NoUrl)
    /\ current_url = NoUrl /\ emails = {} /\ phones = {}
    /\ social = NoSocialHrefs /\ address = "" /\ contact_page = NoUrl
    /\ visit = NoVisit /\ served = <<>> /\ written = <<>>
    /\ SearchIdle
    /\ ExtractIdle

NextCrawl ==
    \/ (ScrapeSiteCall /\ UNCHANGED <<written, searchVars, extractVars>>)
    \/ (MainPageVisit /\ UNCHANGED <<written, searchVars, extractVars>>)
    \/ (ContactPageVisit /\ UNCHANGED <<written, searchVars, extractVars>>)
    \/ (ScrapeSiteReturn /\ UNCHANGED <<written, searchVars, extractVars>>)
    \/ (ScrapeMultipleSitesReturn /\ UNCHANGED <<written, searchVars, extractVars>>)
    \/ (SaveResults /\ UNCHANGED <<searchVars, extractVars>>)

SpecCrawl == InitCrawl /\ [][NextCrawl]_vars

-----------------------------------------------------------------------------
(* search_google                                                            *)
(*                                                                          *)
(* An href of a listing page is an integer: n >= 1 is the n-th outside URL, *)
(* 0 is an http link into google.com, -1 an http link to                    *)
(* youtube.com/results, -2 an href that does not start with "http".         *)

\* line 92: results per listing page
ResultsPerPage == 10

\* largest max_results a caller passes
MaxResults == 21

\* smallest max_results a caller passes is -MinResults
MinResults == 11

\* longest list of "Next" spans on a listing page
MaxSpans == 2

\* line 92 computed one page too many for multiples of ten
MaxPagesFor_OneMore(n) == n \div ResultsPerPage + 1

\* line 92: max_pages = (max_results + 9) // 10
MaxPagesFor(n) == (n + (ResultsPerPage - 1)) \div ResultsPerPage

\* the outside URLs s, s+1, ..., s+n-1
Run(s, n) == [k \in 1..n |-> s + k - 1]

\* A listing page: results holds the first link of each result block
\* (div.g, div[data-hveid]), search_links every link inside div#search.
ListingPages ==
    {[results |-> r, search_links |-> r] :
        r \in {Run(1, 5), Run(1, 10), Run(6, 10), Run(11, 5), Run(11, 10),
               \* own links, a relative link, and two results listed twice
               <<0, -2>> \o Run(1, 10) \o <<-1, 1, 2>>,
               <<0>> \o Run(6, 10) \o <<-2, 7, 6>>}}
    \cup
    {[results |-> r, search_links |-> l] :
        r \in {<<>>, <<0, -1, -2>>},
        l \in {<<>>, <<-2, 0, -1, 3, 3, 4>>}}

\* lines 129-147: the links taken from one listing page
ResultLinks(pg) ==
    LET method1 == SelectSeq(pg.results, LAMBDA h : h >= 1)
        method2 == SelectSeq(pg.search_links, LAMBDA h : h >= 1 \/ h = -1)
    IN  IF method1 # <<>> THEN method1 ELSE method2

\* lines 150-155 without the test "url not in seen"
RECURSIVE AddUnique_NoSeenTest(_, _, _, _)
AddUnique_NoSeenTest(us, sn, links, mx) ==
    IF links = <<>> THEN [urls |-> us, seen |-> sn]
    ELSE IF Len(us) < mx
         THEN AddUnique_NoSeenTest(Append(us, Head(links)), sn \cup {Head(links)},
                                   Tail(links), mx)
         ELSE AddUnique_NoSeenTest(us, sn, Tail(links), mx)

\* lines 150-155: append the links not seen yet while the quota lasts
RECURSIVE AddUnique(_, _, _, _)
AddUnique(us, sn, links, mx) ==
    IF links = <<>> THEN [urls |-> us, seen |-> sn]
    ELSE IF Head(links) \notin sn /\ Len(us) < mx
         THEN AddUnique(Append(us, Head(links)), sn \cup {Head(links)},
                        Tail(links), mx)
         ELSE AddUnique(us, sn, Tail(links), mx)

\* What a strategy's lookup gives: no element ("absent": find_element raises),
\* an element that is not displayed ("hidden": click raises
\* ElementNotInteractableException), a displayed element whose click raises
\* ("blocked"), or a displayed element whose click returns ("ok").
Controls == {"absent", "hidden", "blocked", "ok"}

\* the parent of a span with text "Next": not an anchor, or an anchor as above
SpanParents == {"not_anchor", "hidden", "blocked", "ok"}

SpanLists == UNION {[1..n -> SpanParents] : n \in 0..MaxSpans}

\* lines 192-199: the control the loop over the spans reaches first
RECURSIVE FirstAnchor(_)
FirstAnchor(spans) ==
    IF spans = <<>> THEN "absent"
    ELSE IF Head(spans) = "not_anchor" THEN FirstAnchor(Tail(spans))
    ELSE Head(spans)

NoSession ==
    [waits |-> <<>>, links |-> <<>>, added |-> <<>>, tried |-> <<>>, clicks |-> <<>>,
     stop |-> ""]

\* lines 83-92
SearchCall ==
    /\ mode = "search" /\ spc = "call"
    /\ urls' = <<>> /\ seen' = {} /\ page' = 1
    /\ IF driver
       THEN /\ max_pages' = MaxPagesFor(max_results)
            /\ spc' = "submit"
            /\ UNCHANGED session
       ELSE /\ spc' = "return"
            /\ session' = [session EXCEPT !.stop = "no-driver"]
            /\ UNCHANGED max_pages
    /\ UNCHANGED <<mode, driver, max_results, next_button_found>>

\* lines 94-113; what they raise is caught at lines 218-221
SubmitQuery ==
    /\ spc = "submit"
    /\ \/ /\ spc' = "while"
          /\ UNCHANGED session
       \/ /\ spc' = "return"
          /\ session' = [session EXCEPT !.stop = "transport-error"]
    /\ UNCHANGED <<mode, driver, max_results, max_pages, urls, seen, page,
                   next_button_found>>

\* line 116
WhileTest ==
    /\ spc = "while"
    /\ IF Len(urls) < max_results /\ page <= max_pages
       THEN /\ spc' = "listing"
            /\ UNCHANGED session
       ELSE /\ spc' = "return"
            /\ session' = [session EXCEPT !.stop = "loop-condition"]
    /\ UNCHANGED <<mode, driver, max_results, max_pages, urls, seen, page,
                   next_button_found>>

\* lines 211-216 retrying the page instead of leaving the loop
AfterListingFault_Retry == "while"

\* lines 211-216: both handlers end in break
AfterListingFault == "return"

\* lines 119-165 and 208-209, with the handlers of lines 211-216
ListingPage ==
    /\ spc = "listing"
    /\ \/ \* line 121: the wait for the listing times out
          /\ session' = [session EXCEPT !.waits = Append(@, page),
                                        !.stop = "timeout"]
          /\ spc' = AfterListingFault
          /\ UNCHANGED <<urls, seen, next_button_found>>
       \/ \* line 126: reading or parsing the page raises
          /\ session' = [session EXCEPT !.waits = Append(@, page),
                                        !.stop = "error"]
          /\ spc' = AfterListingFault
          /\ UNCHANGED <<urls, seen, next_button_found>>
       \/ \E pg \in ListingPages :
             LET new == AddUnique(urls, seen, ResultLinks(pg), max_results)
                 got == SubSeq(new.urls, Len(urls) + 1, Len(new.urls))
             IN  /\ urls' = new.urls
                 /\ seen' = new.seen
                 /\ IF Len(new.urls) >= max_results
                    THEN /\ spc' = "return"
                         /\ session' = [session EXCEPT !.waits = Append(@, page),
                                                       !.links = ResultLinks(pg),
                                                       !.added = Append(@, got),
                                                       !.stop = "quota"]
                         /\ UNCHANGED next_button_found
                    ELSE IF page < max_pages
                    THEN /\ spc' = "next_id"
                         /\ next_button_found' = FALSE
                         /\ session' = [session EXCEPT !.waits = Append(@, page),
                                                       !.links = ResultLinks(pg),
                                                       !.added = Append(@, got),
                                                       !.tried = <<>>]
                    ELSE /\ spc' = "return"
                         /\ session' = [session EXCEPT !.waits = Append(@, page),
                                                       !.links = ResultLinks(pg),
                                                       !.added = Append(@, got),
                                                       !.stop = "pages"]
                         /\ UNCHANGED next_button_found
    /\ UNCHANGED <<mode, driver, max_results, max_pages, page>>

\* the tests of lines 178 and 189 dropped: a later strategy runs regardless
SkipStrategy_Never(found) == FALSE

\* lines 178 and 189: "if not next_button_found" guards the later strategies
SkipStrategy(found) == found

\* one strategy: look the control up and click it if it is displayed;
\* whatever raises is swallowed by the bare except
TryStrategy(by, control, nextpc) ==
    /\ next_button_found' = (next_button_found \/ control = "ok")
    /\ session' = [session EXCEPT
                      !.tried = Append(@, [by |-> by, control |-> control]),
                      !.clicks = IF control = "ok"
                                 THEN Append(@, [page |-> page, by |-> by,
                                                 count |-> Len(urls)])
                                 ELSE @]
    /\ spc' = nextpc

\* lines 168-176: Method 1, By.ID "pnnext"
NextById ==
    /\ spc = "next_id"
    /\ \E c \in Controls : TryStrategy("id", c, "next_aria")
    /\ UNCHANGED <<mode, driver, max_results, max_pages, urls, seen, page>>

\* lines 178-187: Method 2, a[aria-label*='Next']
NextByAriaLabel ==
    /\ spc = "next_aria"
    /\ IF SkipStrategy(next_button_found)
       THEN /\ spc' = "next_text"
            /\ UNCHANGED <<next_button_found, session>>
       ELSE \E c \in Controls : TryStrategy("aria-label", c, "next_text")
    /\ UNCHANGED <<mode, driver, max_results, max_pages, urls, seen, page>>

\* lines 189-201: Method 3, the anchor around a span with text "Next"
NextByText ==
    /\ spc = "next_text"
    /\ IF SkipStrategy(next_button_found)
       THEN /\ spc' = "next_check"
            /\ UNCHANGED <<next_button_found, session>>
       ELSE \E spans \in SpanLists :
               TryStrategy("text", FirstAnchor(spans), "next_check")
    /\ UNCHANGED <<mode, driver, max_results, max_pages, urls, seen, page>>

\* line 207 left out: the page index stays where it is
NextPage_Stuck(p) == p

\* line 207: page += 1
NextPage(p) == p + 1

\* lines 203-207
NextCheck ==
    /\ spc = "next_check"
    /\ IF ~next_button_found
       THEN /\ spc' = "return"
            /\ session' = [session EXCEPT !.stop = "no-next"]
            /\ UNCHANGED page
       ELSE /\ page' = NextPage(page)
            /\ spc' = "while"
            /\ UNCHANGED session
    /\ UNCHANGED <<mode, driver, max_results, max_pages, urls, seen,
                   next_button_found>>

\* lines 223-224
SearchReturn ==
    /\ spc = "return"
    /\ spc' = "done"
    /\ UNCHANGED <<mode, driver, max_results, max_pages, urls, seen, page,
                   next_button_found, session>>

\* lines 87 and 224: what search_google hands to its caller is the list of
\* URLs and nothing else
SearchResult == [urls |-> urls]

\* a scraper object (lines 40-50: driver set or None) about to search
InitSearch ==
    /\ mode = "search"
    /\ driver \in BOOLEAN
    /\ max_results \in (0 - MinResults)..MaxResults
    /\ max_pages = 0 /\ urls = <<>> /\ seen = {} /\ page = 1
    /\ next_button_found = FALSE /\ spc = "call" /\ session = NoSession
    /\ CrawlIdle
    /\ ExtractIdle

NextSearch ==
    \/ (SearchCall /\ UNCHANGED <<crawlVars, extractVars>>)
    \/ (SubmitQuery /\ UNCHANGED <<crawlVars, extractVars>>)
    \/ (WhileTest /\ UNCHANGED <<crawlVars, extractVars>>)
    \/ (ListingPage /\ UNCHANGED <<crawlVars, extractVars>>)
    \/ (NextById /\ UNCHANGED <<crawlVars, extractVars>>)
    \/ (NextByAriaLabel /\ UNCHANGED <<crawlVars, extractVars>>)
    \/ (NextByText /\ UNCHANGED <<crawlVars, extractVars>>)
    \/ (NextCheck /\ UNCHANGED <<crawlVars, extractVars>>)
    \/ (SearchReturn /\ UNCHANGED <<crawlVars, extractVars>>)

SpecSearch == InitSearch /\ [][NextSearch]_vars

\* search_google is sequential code and every call of the collaborator returns
\* or raises (the waits are bounded, lines 101 and 121; page loads by line 247):
\* a session that can take a step takes one
SpecSearchFair == SpecSearch /\ WF_vars(NextSearch)

-----------------------------------------------------------------------------
(* extract_emails and extract_phone_numbers                                 *)
(*                                                                          *)
(* A string is the sequence of its characters.  A document (soup) holds the *)
(* href of each <a href> (links), the content of each <meta> (metas, each a *)
(* sequence of words) and, for the phone extractor, elements.  The text is  *)
(* the sequence of its whitespace-separated words.                         *)

\* most links in a document
MaxLinks == 2

\* most words in a text or in the content of a <meta>
MaxWords == 2

\* most <meta> tags in a document
MaxMetas == 1

LowerLetters == <<"a", "b", "c", "d", "e", "f", "g", "h", "i", "j", "k", "l", "m", "n", "o", "p", "q", "r", "s", "t", "u", "v", "w", "x", "y", "z">>

UpperLetters == <<"A", "B", "C", "D", "E", "F", "G", "H", "I", "J", "K", "L", "M", "N", "O", "P", "Q", "R", "S", "T", "U", "V", "W", "X", "Y", "Z">>

DigitChars == {"0", "1", "2", "3", "4", "5", "6", "7", "8", "9"}

Letters == {LowerLetters[k] : k \in 1..Len(LowerLetters)}
           \cup {UpperLetters[k] : k \in 1..Len(UpperLetters)}

\* str.startswith
StartsWith(s, x) == Len(s) >= Len(x) /\ SubSeq(s, 1, Len(x)) = x

\* str.replace(x, ''): every occurrence of x removed, left to right
RECURSIVE RemoveAll(_, _)
RemoveAll(s, x) ==
    IF Len(s) < Len(x) \/ x = <<>> THEN s
    ELSE IF StartsWith(s, x) THEN RemoveAll(SubSeq(s, Len(x) + 1, Len(s)), x)
    ELSE <<Head(s)>> \o RemoveAll(Tail(s), x)

\* str.split(c)[0]
RECURSIVE BeforeFirst(_, _)
BeforeFirst(s, c) ==
    IF s = <<>> \/ Head(s) = c THEN <<>>
    ELSE <<Head(s)>> \o BeforeFirst(Tail(s), c)

\* what follows the first c in s (s when it has none)
RECURSIVE AfterFirst(_, _)
AfterFirst(s, c) ==
    IF s = <<>> THEN <<>>
    ELSE IF Head(s) = c THEN Tail(s)
    ELSE AfterFirst(Tail(s), c)

\* str.split(c)[1], for a string that holds c
SecondPart(s, c) == BeforeFirst(AfterFirst(s, c), c)

\* str.strip
RECURSIVE StripLeft(_)
StripLeft(s) == IF s # <<>> /\ Head(s) = " " THEN StripLeft(Tail(s)) ELSE s

RECURSIVE StripRight(_)
StripRight(s) ==
    IF s # <<>> /\ s[Len(s)] = " " THEN StripRight(SubSeq(s, 1, Len(s) - 1)) ELSE s

Strip(s) == StripRight(StripLeft(s))

\* "x in s" for strings
Contains(s, x) == \E k \in 1..(Len(s) - Len(x) + 1) : SubSeq(s, k, k + Len(x) - 1) = x

\* str.count of one character
Count(s, c) == Cardinality({k \in 1..Len(s) : s[k] = c})

\* str.lower
LowerChar(c) ==
    IF \E k \in 1..Len(UpperLetters) : UpperLetters[k] = c
    THEN LowerLetters[CHOOSE k \in 1..Len(UpperLetters) : UpperLetters[k] = c]
    ELSE c

Lower(s) == [k \in 1..Len(s) |-> LowerChar(s[k])]

\* the elements of a sequence
Range(q) == {q[k] : k \in 1..Len(q)}

\* lines 53-55, email_pattern: a word of the text that is local@domain.tld.
\* The words of the model start with a letter or a digit and hold at most one
\* "@", so the pattern matches a word wholly or not at all.
MatchesEmailPattern(w) ==
    \E a \in 2..Len(w), d \in 1..Len(w) :
        /\ w[a] = "@" /\ d > a + 1 /\ w[d] = "." /\ Len(w) - d >= 2
        /\ w[1] \in Letters \cup DigitChars
        /\ \A k \in 1..(a - 1) :
              w[k] \in Letters \cup DigitChars \cup {".", "_", "%", "+", "-"}
        /\ \A k \in (a + 1)..(d - 1) : w[k] \in Letters \cup DigitChars \cup {".", "-"}
        /\ \A k \in (d + 1)..Len(w) : w[k] \in Letters \cup {"|"}

\* email_pattern.findall over a sequence of words
FindEmails(words) == SelectSeq(words, MatchesEmailPattern)

\* lines 325-329: the substrings that make a text candidate a false positive
EmailDenylist ==
    {<<"e", "x", "a", "m", "p", "l", "e", ".", "c", "o", "m">>,
     <<"d", "o", "m", "a", "i", "n", ".", "c", "o", "m">>,
     <<"e", "m", "a", "i", "l", ".", "c", "o", "m">>,
     <<"t", "e", "s", "t", ".", "c", "o", "m">>,
     <<"y", "o", "u", "r", "s", "i", "t", "e", ".", "c", "o", "m">>,
     <<"w", "e", "b", "s", "i", "t", "e", ".", "c", "o", "m">>,
     <<"y", "o", "u", "r", "d", "o", "m", "a", "i", "n", ".", "c", "o", "m">>,
     <<"s", "i", "t", "e", "a", "d", "d", "r", "e", "s", "s", ".", "c", "o", "m">>,
     <<"s", "a", "m", "p", "l", "e", ".", "c", "o", "m">>,
     <<".", "p", "n", "g">>,
     <<".", "j", "p", "g">>,
     <<".", "g", "i", "f">>}

\* lines 314-318: the candidates from mailto: links
MailtoEmails(links) ==
    {Lower(Strip(BeforeFirst(RemoveAll(h, <<"m", "a", "i", "l", "t", "o", ":">>), "?"))) :
        h \in {g \in Range(links) :
                 /\ StartsWith(g, <<"m", "a", "i", "l", "t", "o", ":">>)
                 /\ LET email == Strip(BeforeFirst(RemoveAll(g, <<"m", "a", "i", "l", "t", "o", ":">>), "?"))
                    IN  "@" \in Range(email) /\ "." \in Range(email)}}

\* lines 321-332: the candidates from the text
TextEmails(words) ==
    {e \in {Strip(Lower(w)) : w \in Range(FindEmails(words))} :
        /\ e # <<>>
        /\ ~ \E x \in EmailDenylist : Contains(e, x)
        /\ Count(e, "@") = 1
        /\ "." \in Range(SecondPart(e, "@"))}

\* lines 335-342: the candidates from <meta content=...>
MetaEmails(metas) ==
    UNION {{e \in {Strip(Lower(w)) : w \in Range(FindEmails(content))} :
               Count(e, "@") = 1} :
           content \in {c \in Range(metas) : \E w \in Range(c) : "@" \in Range(w)}}

\* lines 311-344
extract_emails(sp, tx) ==
    MailtoEmails(sp.links) \cup TextEmails(tx.words) \cup MetaEmails(sp.metas)

\* the hrefs, text words and meta words of the documents given to extract_emails
EmailHrefs ==
    {<<"m", "a", "i", "l", "t", "o", ":", "a", "@", "t", "e", "s", "t", ".", "c", "o", "m">>,
     <<"m", "a", "i", "l", "t", "o", ":", "S", "@", "S", "h", "o", "p", ".", "i", "o", "?", "s", "=", "1">>,
     <<"m", "a", "i", "l", "t", "o", ":", "n", "o", "b", "o", "d", "y">>,
     <<"/", "c", "o", "n", "t", "a", "c", "t">>}

EmailWords ==
    {<<"b", "@", "s", "h", "o", "p", ".", "i", "o">>,
     <<"B", "@", "S", "a", "m", "p", "l", "e", ".", "c", "o", "m">>,
     <<"l", "o", "g", "o", "@", "2", "x", ".", "p", "n", "g">>,
     <<"h", "e", "l", "l", "o">>}

MetaWords ==
    {<<"c", "@", "e", "m", "a", "i", "l", ".", "c", "o", "m">>,
     <<"c", "@", "s", "h", "o", "p", ".", "i", "o">>,
     <<"@", "s", "h", "o", "p">>}

SeqsUpTo(S, n) == UNION {[1..m -> S] : m \in 0..n}

\* lines 300-344, extract_emails called with a parsed document and its text
ExtractEmails ==
    /\ mode = "emails" /\ xpc = "call"
    /\ extracted' = extract_emails(soup, text)
    /\ xpc' = "done"
    /\ UNCHANGED <<mode, driver, soup, text>>

InitEmails ==
    /\ mode = "emails"
    /\ driver = TRUE
    /\ soup \in [links : SeqsUpTo(EmailHrefs, MaxLinks),
                 metas : SeqsUpTo(SeqsUpTo(MetaWords, MaxWords) \ {<<>>}, MaxMetas),
                 elements : {<<>>}]
    /\ text \in [words : SeqsUpTo(EmailWords, MaxWords), phones : {<<>>}]
    /\ extracted = {} /\ xpc = "call"
    /\ CrawlIdle
    /\ SearchIdle

NextEmails == ExtractEmails /\ UNCHANGED <<crawlVars, searchVars>>

SpecEmails == InitEmails /\ [][NextEmails]_vars

\* most keyword-bearing elements in a document
MaxElements == 1

\* most phone-shaped runs in one element, and in the text outside the elements
MaxMatches == 1

\* lines 379 and 390: len(re.sub(r'\D', '', phone))
DigitCount(s) == Len(SelectSeq(s, LAMBDA c : c \in DigitChars))

\* line 364: re.sub(r'[^0-9+()\s.-]', '', phone)
CleanTel(s) ==
    SelectSeq(s, LAMBDA c : c \in DigitChars \cup {"+", "(", ")", " ", ".", "-"})

\* lines 360-366: the candidates from tel: links
TelPhones(links) ==
    {p \in {CleanTel(Strip(RemoveAll(h, <<"t", "e", "l", ":">>))) :
              h \in {g \in Range(links) : StartsWith(g, <<"t", "e", "l", ":">>)}} :
        p # <<>>}

\* lines 57-60, phone_pattern.findall: each phone-shaped run gives the tuple of
\* the pattern's four groups, <<area code, exchange, subscriber, extension>>;
\* a run matched by the second (international) alternative gives four empty
\* groups.
PhoneMatches ==
    {<<<<"5", "5", "5">>, <<"2", "0", "1">>, <<"1", "2", "3", "4">>, <<>>>>,
     <<<<>>, <<"2", "0", "1">>, <<"1", "2", "3", "4">>, <<>>>>,
     <<<<"2", "2", "2">>, <<"2", "2", "2">>, <<"2", "2", "2", "2">>, <<>>>>,
     <<<<"2", "1", "2">>, <<"3", "4", "5">>, <<"6", "7", "8", "9">>, <<"0">>>>,
     <<<<"5", "5", "5">>, <<"2", "0", "1">>, <<"1", "2", "3", "4">>, <<"9", "9", "9", "9", "9", "9">>>>,
     <<<<>>, <<>>, <<>>, <<>>>>}

\* lines 376-377 and 387-388: ''.join(match).strip()
PhoneOf(match) == Strip(match[1] \o match[2] \o match[3] \o match[4])

\* lines 380 and 391
DigitCountOk(p) == DigitCount(p) >= 10 /\ DigitCount(p) <= 15

\* lines 372-381: the candidates from the keyword-bearing elements, each
\* element given by the matches of the pattern in its text
KeywordPhones(elements) ==
    {p \in {PhoneOf(m) : m \in UNION {Range(e) : e \in Range(elements)}} :
        DigitCountOk(p)}

\* line 393: the placeholders filtered from the full-text candidates
PhonePlaceholders == {<<"1", "2", "3", "4", "5", "6", "7", "8", "9", "0">>,
                      <<"0", "0", "0", "0", "0", "0", "0", "0", "0", "0">>}

\* lines 385-394: the candidates from the full text
FallbackPhones(matches) ==
    {p \in {PhoneOf(m) : m \in Range(matches)} :
        /\ DigitCountOk(p)
        /\ ~ \E x \in PhonePlaceholders : Contains(p, x)}

\* lines 357-396
extract_phone_numbers(sp, tx) ==
    LET phones_found == TelPhones(sp.links) \cup KeywordPhones(sp.elements)
    IN  IF Cardinality(phones_found) < 2
        THEN phones_found \cup FallbackPhones(tx.phones)
        ELSE phones_found

\* the hrefs of the documents given to extract_phone_numbers
TelHrefs ==
    {<<"t", "e", "l", ":", "+", "1", "-", "5", "5", "5", "-", "2", "0", "1", "-", "1", "2", "3", "4">>,
     <<"t", "e", "l", ":", "1", "2", "3">>,
     <<"t", "e", "l", ":", "0", "0", "0", "0", "0", "0", "0", "0", "0", "0">>,
     <<"t", "e", "l", ":", "c", "a", "l", "l", "-", "u", "s">>,
     <<"/", "c", "o", "n", "t", "a", "c", "t">>}

\* the matches of the pattern in the text of all the elements, in order
RECURSIVE ElementMatches(_)
ElementMatches(elements) ==
    IF elements = <<>> THEN <<>>
    ELSE Head(elements) \o ElementMatches(Tail(elements))

\* lines 346-396, extract_phone_numbers called with a parsed document and its text
ExtractPhoneNumbers ==
    /\ mode = "phones" /\ xpc = "call"
    /\ extracted' = extract_phone_numbers(soup, text)
    /\ xpc' = "done"
    /\ UNCHANGED <<mode, driver, soup, text>>

\* the text of a document holds the text of its elements
InitPhones ==
    /\ mode = "phones"
    /\ driver = TRUE
    /\ soup \in [links : SeqsUpTo(TelHrefs, MaxLinks),
                 metas : {<<>>},
                 elements : SeqsUpTo(SeqsUpTo(PhoneMatches, MaxMatches) \ {<<>>},
                                     MaxElements)]
    /\ \E rest \in SeqsUpTo(PhoneMatches, MaxMatches) :
          text = [words |-> <<>>, phones |-> ElementMatches(soup.elements) \o rest]
    /\ extracted = {} /\ xpc = "call"
    /\ CrawlIdle
    /\ SearchIdle

NextPhones == ExtractPhoneNumbers /\ UNCHANGED <<crawlVars, searchVars>>

SpecPhones == InitPhones /\ [][NextPhones]_vars

-----------------------------------------------------------------------------
(* Claims about scrape_multiple_sites and scrape_site, checked under       *)
(* SpecCrawl.  A visit's history is complete when cpc = "return".          *)

\* the social columns of a record, by platform
SocialOf(r) ==
    [p \in Platforms |->
        CASE p = "facebook"  -> r.facebook
          [] p = "instagram" -> r.instagram
          [] p = "twitter_x" -> r.twitter_x
          [] p = "tiktok"    -> r.tiktok
          [] p = "youtube"   -> r.youtube
          [] p = "linkedin"  -> r.linkedin]

\* record r holds exactly what pass m extracted from the page resolved to cur
HoldsPass(r, m, cur) ==
    /\ r.url = cur
    /\ r.emails = JoinSorted(m.emails)
    /\ r.phone_numbers = JoinSorted(m.phones)
    /\ SocialOf(r) = m.social
    /\ r.physical_address = m.address
    /\ r.contact_page_url = m.contact_page

\* C1: scrape_multiple_sites emits exactly one record per input URL, in input
\* order, whatever fails: the k-th record was made for the k-th URL, the result
\* is as long as the input once the call returns, and the record of a failed
\* visit has every field empty except url.
C1_OneRecordPerUrl ==
    /\ Len(results) = Len(served)
    /\ Len(results) = i - 1
    /\ Len(results) <= Len(site_urls)
    /\ (cpc \in {"done", "exit"} => Len(results) = Len(site_urls))
    /\ \A k \in 1..Len(results) :
          /\ served[k].target = site_urls[k]
          /\ results[k].url \in {site_urls[k], FinalUrl(site_urls[k])}
          /\ served[k].failed => results[k] = InitialResult(site_urls[k])

\* C1 witness: a two-URL run has returned; the first visit failed, the second
\* did not and found something.
C1_Witness ==
    /\ cpc = "done" /\ Len(site_urls) = 2 /\ site_urls[1] # site_urls[2]
    /\ served[1].failed /\ ~served[2].failed
    /\ results[2].emails # <<>>

\* C2: in scrape_site the contact page is loaded if and only if a contact-page
\* URL was found on the main page, it differs from the resolved current URL,
\* and the main pass found no e-mail address or no phone number; otherwise
\* there is no second page load for the target URL.
C2_ContactVisitRule ==
    LET m   == visit.main
        cur == FinalUrl(visit.target)
        due == /\ visit.mfault = "none"
               /\ m.contact_page # NoUrl
               /\ m.contact_page # cur
               /\ (m.emails = {} \/ m.phones = {})
    IN  /\ (cpc = "contact") => due
        /\ (cpc = "return") =>
              /\ due => visit.loads = <<visit.target, m.contact_page>>
              /\ ~due => Len(visit.loads) <= 1
              /\ (~due /\ visit.mfault # "no_driver") => visit.loads = <<visit.target>>

\* C2 witness: a contact page was loaded after a main page that showed a phone
\* number but no e-mail address.
C2_Witness ==
    /\ cpc = "return" /\ Len(visit.loads) = 2
    /\ visit.main.emails = {} /\ visit.main.phones # {}

\* C3: when the contact-page visit completes, the record is the merge of the
\* two passes: e-mail addresses and phone numbers are the unions, each
\* platform keeps the main page's link if present and else takes the contact
\* page's, the address keeps the main page's value if non-empty and else takes
\* the contact page's, and contact_page_url is what the main page gave.
C3_MergePolicy ==
    (cpc = "return" /\ visit.contact.ran /\ visit.cfault = "none") =>
        LET m == visit.main
            c == visit.contact
        IN  /\ result.emails = JoinSorted(m.emails \cup c.emails)
            /\ result.phone_numbers = JoinSorted(m.phones \cup c.phones)
            /\ \A p \in Platforms :
                  SocialOf(result)[p] =
                      IF m.social[p] # NoUrl THEN m.social[p] ELSE c.social[p]
            /\ result.physical_address =
                  IF m.address # "" THEN m.address ELSE c.address
            /\ result.contact_page_url = m.contact_page

\* C3 witness: a completed contact visit where both pages link a Facebook
\* account, only the contact page links Instagram and gives an address.
C3_Witness ==
    /\ cpc = "return" /\ visit.contact.ran /\ visit.cfault = "none"
    /\ visit.main.social["facebook"] # NoUrl
    /\ visit.contact.social["facebook"] # NoUrl
    /\ visit.contact.social["instagram"] # NoUrl
    /\ visit.main.address = "" /\ visit.contact.address # ""
    /\ visit.contact.emails # {}

\* the contact-page faults of C8: the page cannot be loaded, or fails mid-load
LoadFaults == {"get", "page_source"}

\* C8: if the contact-page visit faults, the record keeps every value taken
\* from the main page, and scrape_multiple_sites appends it and goes on with
\* the next URL.
C8_ContactFaultKeepsMain ==
    /\ [](    (cpc = "return" /\ visit.cfault \in LoadFaults)
           => HoldsPass(result, visit.main, FinalUrl(visit.target)))
    /\ [][    (cpc = "return" /\ visit.cfault \in LoadFaults)
           => (/\ results' = Append(results, result)
               /\ i' = i + 1
               /\ cpc' = "loop")]_vars
    /\ [][    (cpc = "loop" /\ i <= Len(site_urls))
           => (url' = site_urls[i] /\ cpc' \in {"main", "return"})]_vars

\* C8 witness: the contact page failed mid-load after a main page that showed
\* an e-mail address, and another URL is still to be visited.
C8_Witness ==
    /\ cpc = "return" /\ visit.cfault = "page_source"
    /\ visit.main.emails # {} /\ visit.main.address # ""
    /\ i < Len(site_urls)

\* C9: a timed-out wait for the document body is never fatal to a page visit,
\* on the main page and on the contact page alike: the visit proceeds, the
\* extraction pass runs on the page, and the record holds its values.
C9_ReadinessTimeoutNeverFatal ==
    (cpc = "return") =>
        /\ (visit.mwait = "timeout" /\ visit.mfault = "none") =>
              /\ visit.main.ran
              /\ result.contact_page_url = visit.main.contact_page
              /\ \A e \in visit.main.emails :
                    \E k \in 1..Len(result.emails) : result.emails[k] = e
        /\ (visit.cwait = "timeout") =>
              /\ visit.contact.ran
              /\ \A e \in visit.contact.emails :
                    \E k \in 1..Len(result.emails) : result.emails[k] = e

\* C10: a fault in one field extractor during the main-page pass empties only
\* that field: the record holds what the other extractors returned for the
\* page.
C10_ExtractorFaultIsolated ==
    (cpc = "return"
        /\ visit.mfault \in {MainExtractors[k] : k \in 1..Len(MainExtractors)}) =>
        /\ result.emails = JoinSorted(visit.main.emails)
        /\ result.phone_numbers = JoinSorted(visit.main.phones)
        /\ SocialOf(result) = visit.main.social
        /\ result.physical_address = visit.main.address
        /\ result.contact_page_url = visit.main.contact_page

\* C11: when the WebDriver failed to initialise (self.driver is None) the run
\* is over at once: when main returns, no record has been produced for any
\* target URL and no output file has been written.
C11_InitFailureFatal ==
    (cpc = "exit" /\ ~driver) => (results = <<>> /\ written = <<>>)

\* C12 as stated: whenever the main page was loaded, the record's url is the
\* resolved (post-redirect) URL of that page.
C12_AsStated ==
    (cpc = "return" /\ visit.mwait # "none") =>
        result.url = FinalUrl(visit.target)

\* the url a record holds for a visit of target t: the requested URL when the
\* visit failed, the resolved one otherwise
RecordedUrl(t, failed) == IF failed THEN t ELSE FinalUrl(t)

\* C12, amended: a record's url is the resolved URL of the main page when the
\* visit reached the update of line 583 and the requested URL when it failed
\* before; after a contact-page visit it is still the main page's URL, not
\* the page the driver was last sent to.
C12_ResolvedUrl ==
    /\ \A k \in 1..Len(results) :
          results[k].url = RecordedUrl(served[k].target, served[k].failed)
    /\ (cpc = "return") =>
          /\ result.url = RecordedUrl(visit.target, visit.failed)
          /\ (Len(visit.loads) = 2) =>
                /\ ~visit.failed
                /\ visit.loads[1] = visit.target
                /\ result.url # visit.loads[2]

\* a redirected visit has been recorded under its resolved URL, and a visit
\* that went on to the contact page is about to return its main-page URL
C12_Witness ==
    /\ Len(results) = 1
    /\ ~served[1].failed
    /\ results[1].url = FinalUrl(served[1].target)
    /\ results[1].url # served[1].target
    /\ cpc = "return"
    /\ Len(visit.loads) = 2
    /\ visit.cfault = "none"
    /\ result.url = FinalUrl(visit.target)

-----------------------------------------------------------------------------
(* Claims about search_google, checked under SpecSearch.  session.added     *)
(* holds, page by page, the URLs each processed listing page contributed.   *)

RECURSIVE Flatten(_)
Flatten(ss) == IF ss = <<>> THEN <<>> ELSE Head(ss) \o Flatten(Tail(ss))

NoDuplicates(q) == \A j, k \in 1..Len(q) : q[j] = q[k] => j = k

IsPrefix(p, q) == Len(p) <= Len(q) /\ SubSeq(q, 1, Len(p)) = p

NonNegative(n) == IF n < 0 THEN 0 ELSE n

\* q keeps the order of the first occurrences of its elements in links
InListingOrder(q, links) ==
    \A j, k \in 1..Len(q) :
        j < k =>
            \E a, b \in 1..Len(links) :
                /\ a < b /\ links[a] = q[j] /\ links[b] = q[k]
                /\ \A c \in 1..(b - 1) : links[c] # q[k]

\* C4 as stated: at every point of a search_google session the accumulated
\* URL sequence has no duplicates, is at most max_results long and is in
\* discovery order across pages.
C4_AsStated ==
    (spc # "call" /\ session.stop # "no-driver") =>
        /\ NoDuplicates(urls)
        /\ Len(urls) <= max_results
        /\ urls = Flatten(session.added)

\* C4 amended: at every point of a search_google session the accumulated URL
\* sequence has no duplicates, is at most max(max_results, 0) long, and is
\* in discovery order: it is the concatenation of what each page contributed,
\* each contribution in listing order, and a step only ever appends to it.
C4_UniqueCappedOrdered ==
    /\ [](/\ NoDuplicates(urls)
          /\ Len(urls) <= NonNegative(max_results)
          /\ seen = {urls[k] : k \in 1..Len(urls)}
          /\ urls = Flatten(session.added)
          /\ (session.added # <<>> =>
                 InListingOrder(session.added[Len(session.added)], session.links)))
    /\ [][IsPrefix(urls, urls')]_vars

\* C4 witness: a second listing page repeated URLs already collected and
\* contributed only its new ones, with quota to spare.
C4_Witness ==
    /\ spc = "done" /\ Len(session.added) = 2
    /\ Len(session.added[1]) = 10
    /\ session.links = Run(6, 10)
    /\ session.added[2] = Run(11, 5)
    /\ Len(urls) < max_results

\* C5: for every max_results >= 1, max_pages = ceil(max_results / 10), at
\* most max_pages listing pages are processed, and no next page is asked for
\* once the count has reached max_results or page >= max_pages; with
\* max_results = 15, a first page giving 10 URLs and a second giving 5, the
\* session ends with exactly 15 URLs and never asks for a third page.
C5_PageBudget ==
    (max_results >= 1) =>
        /\ (spc \notin {"call", "submit"} /\ session.stop # "no-driver") =>
              /\ (max_pages - 1) * 10 < max_results
              /\ max_results <= max_pages * 10
              /\ Len(session.waits) <= max_pages
              /\ page <= max_pages
        /\ (spc \in {"next_id", "next_aria", "next_text", "next_check"}) =>
              (Len(urls) < max_results /\ page < max_pages)
        /\ \A k \in 1..Len(session.clicks) :
              /\ session.clicks[k].count < max_results
              /\ session.clicks[k].page < max_pages
        /\ (/\ max_results = 15 /\ Len(session.added) = 2
            /\ Len(session.added[1]) = 10 /\ Len(session.added[2]) = 5) =>
              /\ Len(urls) = 15
              /\ spc \in {"return", "done"}
              /\ session.stop = "quota"
              /\ session.waits = <<1, 2>>
              /\ Len(session.clicks) = 1

\* C5 witness: the session of the example has returned.
C5_Witness ==
    /\ spc = "done" /\ max_results = 15 /\ Len(session.added) = 2
    /\ Len(session.added[1]) = 10 /\ Len(session.added[2]) = 5

C7_ListingFaultEndsSession ==
    (session.stop \in {"timeout", "error"}) =>
        /\ spc \in {"return", "done"}
        /\ Len(session.added) = page - 1
        /\ urls = Flatten(session.added)
        /\ session.waits = [k \in 1..page |-> k]

\* C7 witness: the listing timed out on page 2 and page 1's URLs were returned.
C7_Witness ==
    /\ spc = "done" /\ session.stop = "timeout" /\ page = 2
    /\ Len(urls) = 10

\* C16 as stated: in a session with a driver the page index stays within
\* 1..max_pages and the loop body has run at most max_pages times.
C16_AsStated ==
    (spc \notin {"call"} /\ session.stop # "no-driver") =>
        /\ page >= 1 /\ page <= max_pages
        /\ Len(session.waits) <= max_pages

AtLeast(n, low) == IF n < low THEN low ELSE n

\* C16, amended: every session terminates; the page index starts at 1 and
\* stays within 1..max(max_pages, 1); each pass through the loop body either
\* leaves the loop with the page index unchanged or increases it by exactly 1,
\* and nothing else changes it; the body runs at most max(max_pages, 0) times.
C16_Terminates ==
    /\ <>(spc = "done")
    /\ [](page >= 1 /\ page <= AtLeast(max_pages, 1))
    /\ []((spc # "call") => Len(session.waits) <= AtLeast(max_pages, 0))
    /\ [][IF spc = "next_check"
          THEN \/ spc' = "return" /\ page' = page
               \/ spc' = "while" /\ page' = page + 1
          ELSE page' = page]_vars
    /\ [][(spc = "listing") =>
            /\ Len(session'.waits) = Len(session.waits) + 1
            /\ spc' \in {"return", "next_id"}]_vars

\* a session over after its loop body ran max_pages = 3 times
C16_Witness ==
    /\ spc = "done" /\ max_pages = 3 /\ page = 3
    /\ Len(session.waits) = 3
    /\ session.stop \in {"pages", "quota", "timeout", "error"}

\* the termination reasons a search session reports
Reasons == {"quota", "pages", "no-next", "timeout", "transport-error"}

\* C13: the result of a finished search session is the deduplicated URL
\* sequence in discovery order together with one termination reason out of
\* Reasons, which is the condition that ended the session.
C13_ResultCarriesReason ==
    (spc = "done") =>
        /\ SearchResult.urls = Flatten(session.added)
        /\ NoDuplicates(SearchResult.urls)
        /\ "reason" \in DOMAIN SearchResult
        /\ SearchResult.reason \in Reasons
        /\ SearchResult.reason = session.stop

-----------------------------------------------------------------------------
(* Claims about extract_emails and extract_phone_numbers                    *)

\* every digit of p is the same digit
AllSameDigit(p) ==
    LET ds == SelectSeq(p, LAMBDA c : c \in DigitChars)
    IN  ds # <<>> /\ \A k \in 1..Len(ds) : ds[k] = ds[1]

\* C14: every phone number returned by extract_phone_numbers, whichever source
\* it came from, has between 10 and 15 digits and is not one digit repeated.
C14_PhonesValidated ==
    (xpc = "done" /\ mode = "phones") =>
        \A p \in extracted : DigitCountOk(p) /\ ~AllSameDigit(p)

\* the placeholder domains of the denylist (its other entries are image
\* suffixes)
PlaceholderDomains == {x \in EmailDenylist : Head(x) # "."}

\* C15: no e-mail address returned by extract_emails has a domain on the
\* placeholder denylist, whichever source (mailto: link, text, <meta>) the
\* candidate came from.
C15_DenylistExcluded ==
    (xpc = "done" /\ mode = "emails") =>
        \A e \in extracted : AfterFirst(e, "@") \notin PlaceholderDomains

====
